---- MODULE Spec2Model ----
(***************************************************************************)
(* Model of alpha_shapes.Alpha_Shaper (src/alpha_shapes/alpha_shapes.py):  *)
(* construction over a triangulation, the circumradius table and its rank  *)
(* order, get_mask / get_shape / set_mask_at_alpha, and optimize() with    *)
(* its coverage search.                                                    *)
(*                                                                         *)
(* Numbers.  The code compares squared circumradii r2 with 1/alpha**2 and  *)
(* computes alpha_opt = 1/sqrt(r2) - 1e-10.  The model works on the grid   *)
(* whose unit is the code's epsilon, u = 1e-10:                            *)
(*   - an alpha is an integer a, standing for a*u;                         *)
(*   - a squared radius (an entry of circumradii_sq, or 1/alpha**2) is     *)
(*     stored as its reciprocal in units of u*u: the natural number m      *)
(*     stands for r2 = 1/(m*u*u), and m = 0 (Inf) stands for numpy's inf.  *)
(*     The table entries are perfect squares m = q*q, so that 1/sqrt(r2)   *)
(*     = q*u is on the grid and the arithmetic below is exact.             *)
(* A shape (the union of triangle polygons) is modelled by the list of the *)
(* triangles that are united, each by its index in self.simplices.         *)
(* Sequences are 1-based: the code's                                       *)
(* index k is the model's k+1 where a sequence is indexed; n_start, n and  *)
(* n_min keep the code's 0-based values.                                   *)
(***************************************************************************)
EXTENDS Integers, Sequences, FiniteSets

VARIABLES
    status,          \* "new" before __init__, "ready" once constructed, "failed" if __init__ raised
    error,           \* exception raised by the last call, "none" if it returned
    npoints,         \* number of input points (len of self.x)
    triAttempted,    \* the Triangulation constructor has been called
    simplices,       \* self.simplices: sequence of triangles, each a set of 3 point indices
    circumradii_sq,  \* self.circumradii_sq: one entry per triangle
    argsort,         \* self.argsort: triangle indices by ascending circumradii_sq
    mask,            \* self.mask: TRUE = triangle masked out
    call,            \* name of the last method called
    alpha,           \* alpha argument of the last call, or alpha_opt after optimize()
    result,          \* what the last call returned or computed (None if it raised):
                     \*   mask: the mask returned by get_mask;
                     \*   shape: the triangles united into the shape returned by get_shape
                     \*     or optimize;
                     \*   n_min, steps: the index that the coverage search of optimize
                     \*     found and the number of iterations of its forward scan
    coords           \* the coordinates through __init__: the input points, the local
                     \*   points / center / scale of the normalize branch, self.x and
                     \*   self.y (xy), the circumradius of the triangle and the stage
                     \*   that __init__ has reached

vars == <<status, error, npoints, triAttempted, simplices,
          circumradii_sq, argsort, mask, call, alpha, result, coords>>

(***************************************************************************)
(* Bounds of the model.                                                    *)
(***************************************************************************)
MaxT == 3      \* most triangles of an enumerated triangulation
MaxQ == 2      \* largest 1/sqrt(r2) of a table entry, in units of 1e-10

(***************************************************************************)
(* Arithmetic on the grid.                                                 *)
(***************************************************************************)
Inf == 0       \* np.inf, as a squared radius
EPS == 1       \* the 1e-10 subtracted by optimize()

\* a > b for two squared radii (reciprocal encoding; inf > inf is FALSE)
GT(a, b) == a < b

\* a <= b for two squared radii
LE(a, b) == a >= b

\* 1 / alpha**2 of a numpy float: alpha**2 is 0.0 for alpha = 0 and 1/0.0 is inf
RecipSq(a) == a * a

\* np.sqrt followed by 1/x: 1/sqrt(r2), an alpha; 1/sqrt(inf) = 0.0
RecipSqrt(m) == CHOOSE q \in 0..m : q * q = m

\* the table values: inf, and the radii with 1/sqrt(r2) = q*u, q in 1..MaxQ
RadiiSq == {q * q : q \in 0..MaxQ}

(***************************************************************************)
(* Triangulations handed back by matplotlib.tri.Triangulation: the triangle *)
(* list over the point indices, and the table computed from it.            *)
(***************************************************************************)
\* position of a triangle in the triangle list: by its lowest vertices first
Key(t) == LET a == CHOOSE v \in t : \A w \in t : v <= w
              c == CHOOSE v \in t : \A w \in t : v >= w
              b == CHOOSE v \in t : v # a /\ v # c
          IN  (a * 16 + b) * 16 + c

RECURSIVE ListOf(_)
ListOf(S) ==
    IF S = {} THEN <<>>
    ELSE LET t == CHOOSE x \in S : \A y \in S : Key(x) <= Key(y)
         IN  <<t>> \o ListOf(S \ {t})

\* T triangles of a convex polygon, all at its vertex 0
OpenFan(T) == {{0, i, i + 1} : i \in 1..T}

\* T >= 3 triangles around the interior point 0
ClosedFan(T) == {{0, i, (i % T) + 1} : i \in 1..T}

\* the triangulations of T triangles
Shapes(T) == {OpenFan(T)} \cup (IF T >= 3 THEN {ClosedFan(T)} ELSE {})

\* every circumradius table over T triangles
Tables(T) == [1..T -> RadiiSq]

\* the triangulations of at most MaxT triangles with every circumradius table;
\* dropped: the triangulation leaves one more input point out of every triangle
\* (a duplicate of another point)
SmallMeshes ==
    UNION {UNION {{[tri |-> ListOf(S), r2 |-> c,
                    n |-> Cardinality(UNION S) + (IF dropped THEN 1 ELSE 0)] :
                        c \in Tables(T), dropped \in BOOLEAN} :
                     S \in Shapes(T)} : T \in 1..MaxT}

\* unit square (0,0),(0,1),(1,0),(1,1) = points 0..3 and its centre = point 4:
\* four triangles of one circumradius, each the centre and two adjacent corners
SquareTriangles == <<{0, 1, 4}, {0, 2, 4}, {1, 3, 4}, {2, 3, 4}>>

\* the unit square with its centre, at every circumradius of the grid
SquareMeshes ==
    {[tri |-> SquareTriangles, r2 |-> [i \in 1..4 |-> q * q], n |-> 5] : q \in 1..MaxQ}

\* two far-apart clusters (0,0),(0,1),(.5,.5) = points 0..2 and (10,0),(10,1),
\* (9.5,.5) = points 3..5: two small triangles and four long ones between them
ClusterMeshes ==
    UNION {{[tri |-> <<{0, 1, 2}, {0, 2, 5}, {0, 3, 5}, {1, 2, 5}, {1, 4, 5}, {3, 4, 5}>>,
             r2  |-> [i \in 1..6 |-> IF i \in {1, 6} THEN small * small ELSE long * long],
             n   |-> 6] : long \in 1..(small - 1)} : small \in 2..MaxQ}

\* what the triangulation of the input points can be
Triangulations == SmallMeshes \cup SquareMeshes \cup ClusterMeshes

\* np.argsort(circumradii_sq): every order of the triangle indices that is
\* ascending in circumradii_sq (the default sort is not stable: equal entries
\* may come in any order)
RECURSIVE SortedOrders(_, _)
SortedOrders(c, idx) ==
    IF idx = {} THEN {<<>>}
    ELSE UNION {{<<i>> \o p : p \in SortedOrders(c, idx \ {i})} :
                   i \in {j \in idx : \A k \in idx : LE(c[j], c[k])}}

(***************************************************************************)
(* The instance's derived values.                                          *)
(***************************************************************************)
\* len(self)
len == Len(simplices)

\* self._sorted_simplices()
_sorted_simplices == [k \in 1..len |-> simplices[argsort[k]]]

\* self._sorted_circumradii_sw()
_sorted_circumradii_sw == [k \in 1..len |-> circumradii_sq[argsort[k]]]

\* set(np.ravel(s)) for a sequence of triangles s
Ravel(s) == UNION {s[k] : k \in 1..Len(s)}

\* every input point index, in a triangle or not
all_input_points == 0..(npoints - 1)

\* self.all_vertices()
all_vertices == Ravel(simplices)

\* self._uncovered_vertices(s)
_uncovered_vertices(s) == all_vertices \ Ravel(s)

\* self.get_mask(alpha) for an alpha with alpha**2 # 0, or a numpy alpha
get_mask(a) == [i \in 1..len |-> GT(circumradii_sq[i], RecipSq(a))]

\* the indices of the triangles, in the order of self.simplices
indices == [i \in 1..len |-> i]

\* the triangles that get_mask(alpha) flags, by their index
get_masked(a) ==
    LET select(i) == GT(circumradii_sq[i], RecipSq(a))
    IN  SelectSeq(indices, select)

\* the triangles that get_shape(alpha) unites into its shape, by their index, in
\* the order of self.simplices[select]
get_shape(a) ==
    IF a > 0
    THEN LET select(i) == LE(circumradii_sq[i], RecipSq(a))
         IN  SelectSeq(indices, select)
    ELSE indices

\* the forward scan of _get_minimum_fully_covering_index_of_simplices, from
\* index n with the given uncovered set
RECURSIVE Scan(_, _, _)
Scan(n, n_finish, uncovered) ==
    IF n >= n_finish THEN [raised |-> TRUE, n |-> n, steps |-> 0]
    ELSE LET rest == uncovered \ _sorted_simplices[n + 1]
         IN  IF rest = {} THEN [raised |-> FALSE, n |-> n, steps |-> 1]
             ELSE LET r == Scan(n + 1, n_finish, rest)
                  IN  [r EXCEPT !.steps = @ + 1]

\* the index n_start, taken without looking at the uncovered vertices
n_start_unchecked == [raised |-> FALSE, n |-> len \div 3, steps |-> 0]

\* self._get_minimum_fully_covering_index_of_simplices()
_get_minimum_fully_covering_index_of_simplices ==
    LET n_start == len \div 3
        n_finish == len
        uncovered_vertices == _uncovered_vertices(SubSeq(_sorted_simplices, 1, n_start))
    IN  IF uncovered_vertices = {} THEN [raised |-> FALSE, n |-> n_start, steps |-> 0]
        ELSE Scan(n_start, n_finish, uncovered_vertices)

\* alpha_opt of optimize() for the index n
alpha_opt(n) == RecipSqrt(_sorted_circumradii_sw[n + 1]) - EPS

\* the ranked triangles before index n
simplices_before(n) == SubSeq(argsort, 1, n)

\* the triangles that optimize() unites into its shape, by their index, in the
\* order of self._sorted_simplices()[: n + 1]
optimize_simplices(n) == SubSeq(argsort, 1, n + 1)

(***************************************************************************)
(* Inputs of the calls.                                                    *)
(***************************************************************************)
\* the alphas a caller passes
Alphas == (0 - 1)..MaxQ

\* a caller passes a numpy float (optimize() returns one) or a Python float,
\* which differs from the numpy float of the same value at 0 only
Args == {<<a, "float64">> : a \in Alphas} \cup {<<0, "float">>}

\* what a call returns when it raises, or returns self: no mask and no shape
None == [mask |-> <<>>, shape |-> <<>>, n_min |-> 0, steps |-> 0]

\* no coordinates followed: the calls on a triangulation do not read them
NoCoords == [stage |-> "none", normalize |-> FALSE, input |-> <<>>, points |-> <<>>,
             center |-> <<0, 0>>, scale |-> <<0, 0>>, xy |-> <<>>, r2 |-> <<0, 0>>]

(***************************************************************************)
(* Init: nothing is constructed yet.                                       *)
(***************************************************************************)
Init ==
    /\ status = "new"
    /\ error = "none"
    /\ npoints = 0
    /\ triAttempted = FALSE
    /\ simplices = <<>>
    /\ circumradii_sq = <<>>
    /\ argsort = <<>>
    /\ mask = <<>>
    /\ call = "none"
    /\ alpha = 0
    /\ result = None
    /\ coords = NoCoords

\* __init__ raised exc
Fail(n, attempted, exc) ==
    /\ status' = "failed"
    /\ error' = exc
    /\ npoints' = n
    /\ triAttempted' = attempted
    /\ call' = "__init__"
    /\ UNCHANGED <<coords,simplices, circumradii_sq, argsort, mask, alpha, result>>

\* Alpha_Shaper.__init__(points, normalize) on n < 3 points; array2d: np.array(points)
\* has two dimensions (np.array([]) has one)
ConstructFewPoints(n, array2d, normalize) ==
    /\ status = "new"
    /\ n < 3
    /\ (n > 0 => array2d)
    /\ IF normalize /\ n = 0
       THEN \* _normalize_points: np.ptp of an empty array raises
            Fail(n, FALSE, "ValueError")
       ELSE IF ~array2d
       THEN \* coords[:, 0] of a one-dimensional array
            Fail(n, FALSE, "IndexError")
       ELSE \* Triangulation raises ValueError("... at least 3"), which is converted
            Fail(n, TRUE, "NotEnoughPoints")

\* Alpha_Shaper.__init__(points, normalize) on n >= 3 points that the
\* triangulation rejects: with ValueError("... at least 3 unique points"), which
\* is converted, or with another error, which passes through
ConstructRejected(n, normalize, exc) ==
    /\ status = "new"
    /\ n >= 3
    /\ Fail(n, TRUE, exc)

\* Alpha_Shaper.__init__(points, normalize) on points triangulated as m
Construct(m, normalize) ==
    /\ status = "new"
    /\ \E order \in SortedOrders(m.r2, DOMAIN m.r2) :
         /\ status' = "ready"
         /\ error' = "none"
         /\ npoints' = m.n
         /\ triAttempted' = TRUE
         /\ simplices' = m.tri
         /\ circumradii_sq' = m.r2
         /\ argsort' = order
         /\ mask' = [i \in DOMAIN m.r2 |-> FALSE]
         /\ call' = "__init__"
         /\ UNCHANGED <<coords,alpha, result>>

\* a call of method name with argument a raised exc: nothing else changes
Raise(name, a, exc) ==
    /\ error' = exc
    /\ call' = name
    /\ alpha' = a
    /\ result' = None
    /\ UNCHANGED <<coords,status, npoints, triAttempted, simplices,
                   circumradii_sq, argsort, mask>>

\* 1 / alpha**2 raises ZeroDivisionError for a Python 0 (numpy gives inf)
DivisionFails(a, kind) == a = 0 /\ kind = "float"

\* shaper.get_mask(alpha)
GetMask(a, kind) ==
    /\ status = "ready"
    /\ IF DivisionFails(a, kind) THEN Raise("get_mask", a, "ZeroDivisionError")
       ELSE /\ error' = "none"
            /\ call' = "get_mask"
            /\ alpha' = a
            /\ result' = [None EXCEPT !.mask = get_mask(a)]
            /\ UNCHANGED <<coords,status, npoints, triAttempted, simplices,
                           circumradii_sq, argsort, mask>>

\* a get_shape(alpha) that also stores get_mask(alpha) as the active mask
GetShapeSettingMask(a) ==
    /\ status = "ready"
    /\ error' = "none"
    /\ call' = "get_shape"
    /\ alpha' = a
    /\ result' = [None EXCEPT !.shape = get_shape(a)]
    /\ mask' = get_mask(a)
    /\ UNCHANGED <<coords,status, npoints, triAttempted, simplices,
                   circumradii_sq, argsort>>

\* shaper.get_shape(alpha)
GetShape(a) ==
    /\ status = "ready"
    /\ error' = "none"
    /\ call' = "get_shape"
    /\ alpha' = a
    /\ result' = [None EXCEPT !.shape = get_shape(a)]
    /\ UNCHANGED <<coords,status, npoints, triAttempted, simplices,
                   circumradii_sq, argsort, mask>>

\* a set_mask_at_alpha(alpha) that also marks the flagged triangles in the
\* circumradius table
SetMaskInTable(a, kind) ==
    /\ status = "ready"
    /\ IF DivisionFails(a, kind) THEN Raise("set_mask_at_alpha", a, "ZeroDivisionError")
       ELSE /\ error' = "none"
            /\ call' = "set_mask_at_alpha"
            /\ alpha' = a
            /\ mask' = get_mask(a)
            /\ circumradii_sq' = [i \in 1..len |-> IF get_mask(a)[i] THEN Inf
                                                  ELSE circumradii_sq[i]]
            /\ result' = None
            /\ UNCHANGED <<coords,status, npoints, triAttempted, simplices, argsort>>

\* shaper.set_mask_at_alpha(alpha)
SetMaskAtAlpha(a, kind) ==
    /\ status = "ready"
    /\ IF DivisionFails(a, kind) THEN Raise("set_mask_at_alpha", a, "ZeroDivisionError")
       ELSE /\ error' = "none"
            /\ call' = "set_mask_at_alpha"
            /\ alpha' = a
            /\ mask' = get_mask(a)
            /\ result' = None
            /\ UNCHANGED <<coords,status, npoints, triAttempted, simplices,
                           circumradii_sq, argsort>>

\* shaper.optimize()
Optimize ==
    /\ status = "ready"
    /\ LET found == _get_minimum_fully_covering_index_of_simplices
       IN  IF found.raised
           THEN /\ error' = "OptimizationFailure"
                /\ call' = "optimize"
                /\ result' = None
                /\ UNCHANGED <<coords,status, npoints, triAttempted, simplices,
                               circumradii_sq, argsort, mask, alpha>>
           ELSE /\ error' = "none"
                /\ call' = "optimize"
                /\ alpha' = alpha_opt(found.n)
                /\ result' = [None EXCEPT !.shape = optimize_simplices(found.n),
                                          !.n_min = found.n, !.steps = found.steps]
                /\ mask' = get_mask(alpha_opt(found.n))
                /\ UNCHANGED <<coords,status, npoints, triAttempted, simplices,
                               circumradii_sq, argsort>>

Next ==
    \/ \E n \in 0..2, array2d \in BOOLEAN, normalize \in BOOLEAN :
           ConstructFewPoints(n, array2d, normalize)
    \/ \E n \in 3..4, normalize \in BOOLEAN, exc \in {"NotEnoughPoints", "RuntimeError"} :
           ConstructRejected(n, normalize, exc)
    \/ \E m \in Triangulations, normalize \in BOOLEAN : Construct(m, normalize)
    \/ \E arg \in Args : GetMask(arg[1], arg[2])
    \/ \E a \in Alphas : GetShape(a)
    \/ \E arg \in Args : SetMaskAtAlpha(arg[1], arg[2])
    \/ Optimize

Spec == Init /\ [][Next]_vars

(***************************************************************************)
(* The coordinates through __init__, on three points (one triangle).       *)
(* A coordinate is an integer number of units of the last place.  A float  *)
(* quotient is rounded to the nearest representable number: the model      *)
(* rounds a quotient to the nearest integer, and holds the dimensionless   *)
(* normalized coordinates in units of 1/Prec.  Sums, differences and       *)
(* products are exact here.                                                *)
(***************************************************************************)
MaxC == 3      \* largest input coordinate
Prec == 2      \* units of the last place in 1.0, for the normalized coordinates

\* a / b rounded to the nearest integer (half up), b > 0
RoundDiv(a, b) == (2 * a + b) \div (2 * b)

\* column k of an array of three points
Axis(points, k) == [i \in 1..3 |-> points[i][k]]

\* v.mean() of a column
Mean(v) == RoundDiv(v[1] + v[2] + v[3], 3)

\* np.ptp of a column: peak to peak distance
Ptp(v) ==
    LET hi == CHOOSE a \in {v[i] : i \in 1..3} : \A i \in 1..3 : a >= v[i]
        lo == CHOOSE a \in {v[i] : i \in 1..3} : \A i \in 1..3 : a <= v[i]
    IN  hi - lo

\* _normalize_points(points), for a scale without 0
_normalize_points(points) ==
    LET center == <<Mean(Axis(points, 1)), Mean(Axis(points, 2))>>
        scale == <<Ptp(Axis(points, 1)), Ptp(Axis(points, 2))>>
    IN  [points |-> [i \in 1..3 |->
                        <<RoundDiv((points[i][1] - center[1]) * Prec, scale[1]),
                          RoundDiv((points[i][2] - center[2]) * Prec, scale[2])>>],
         center |-> center,
         scale  |-> scale]

\* self.x * scale[0] + center[0] and self.y * scale[1] + center[1]
_denormalize(xy, center, scale) ==
    [i \in 1..3 |-> <<RoundDiv(xy[i][1] * scale[1], Prec) + center[1],
                      RoundDiv(xy[i][2] * scale[2], Prec) + center[2]>>]

\* twice the signed area of the triangle
Cross(p) ==
    (p[2][1] - p[1][1]) * (p[3][2] - p[1][2]) - (p[3][1] - p[1][1]) * (p[2][2] - p[1][2])

\* the squared length of the side from point i to point j
SideSq(p, i, j) ==
    (p[i][1] - p[j][1]) * (p[i][1] - p[j][1]) + (p[i][2] - p[j][2]) * (p[i][2] - p[j][2])

\* _calculate_cirumradius_sq_of_triangle(x, y): num / denom as the pair <<num, denom>>,
\* with num = (abc)**2 and denom = 16 s(s-a)(s-b)(s-c) = 4 * Cross**2; <<1, 0>>
\* is np.inf
_calculate_cirumradius_sq_of_triangle(p) ==
    IF Cross(p) = 0 THEN <<1, 0>>
    ELSE <<SideSq(p, 1, 2) * SideSq(p, 2, 3) * SideSq(p, 3, 1), 4 * Cross(p) * Cross(p)>>

\* the input arrays of three points
Inputs == [1..3 -> (0..MaxC) \X (0..MaxC)]

\* Alpha_Shaper(points, normalize) is entered
InitNorm ==
    /\ status = "new"
    /\ error = "none"
    /\ npoints = 0
    /\ triAttempted = FALSE
    /\ simplices = <<>>
    /\ circumradii_sq = <<>>
    /\ argsort = <<>>
    /\ mask = <<>>
    /\ call = "none"
    /\ alpha = 0
    /\ result = None
    /\ coords \in {[NoCoords EXCEPT !.stage = "input", !.normalize = nz, !.input = p] :
                      p \in Inputs, nz \in BOOLEAN}

\* __init__, normalize branch: points, center, scale = _normalize_points(points);
\* a scale of 0 gives nan coordinates, which the triangulation rejects
NormalizePoints ==
    /\ coords.stage = "input"
    /\ coords.normalize
    /\ IF Ptp(Axis(coords.input, 1)) = 0 \/ Ptp(Axis(coords.input, 2)) = 0
       THEN coords' = [coords EXCEPT !.stage = "failed"]
       ELSE LET n == _normalize_points(coords.input)
            IN  coords' = [coords EXCEPT !.stage = "normalized", !.points = n.points,
                                         !.center = n.center, !.scale = n.scale]
    /\ UNCHANGED <<status, error, npoints, triAttempted, simplices,
                   circumradii_sq, argsort, mask, call, alpha, result>>

\* self._initialize(points): the triangulation stores the points as self.x and
\* self.y and the circumradius is computed from them; it rejects collinear points
Initialize ==
    /\ coords.stage = (IF coords.normalize THEN "normalized" ELSE "input")
    /\ LET points == IF coords.normalize THEN coords.points ELSE coords.input
       IN  IF Cross(points) = 0
           THEN coords' = [coords EXCEPT !.stage = "failed"]
           ELSE coords' = [coords EXCEPT
                              !.stage = (IF coords.normalize THEN "initialized" ELSE "ready"),
                              !.xy = points,
                              !.r2 = _calculate_cirumradius_sq_of_triangle(points)]
    /\ UNCHANGED <<status, error, npoints, triAttempted, simplices,
                   circumradii_sq, argsort, mask, call, alpha, result>>

\* a _denormalize after which the circumradius is computed again, from the
\* coordinates it stored
DenormalizeAndRecompute ==
    /\ coords.stage = "initialized"
    /\ LET xy == _denormalize(coords.xy, coords.center, coords.scale)
       IN  coords' = [coords EXCEPT !.stage = "ready", !.xy = xy,
                                    !.r2 = _calculate_cirumradius_sq_of_triangle(xy)]
    /\ UNCHANGED <<status, error, npoints, triAttempted, simplices,
                   circumradii_sq, argsort, mask, call, alpha, result>>

\* self._denormalize(center, scale)
Denormalize ==
    /\ coords.stage = "initialized"
    /\ coords' = [coords EXCEPT !.stage = "ready",
                                !.xy = _denormalize(coords.xy, coords.center, coords.scale)]
    /\ UNCHANGED <<status, error, npoints, triAttempted, simplices,
                   circumradii_sq, argsort, mask, call, alpha, result>>

NextNorm ==
    \/ NormalizePoints
    \/ Initialize
    \/ Denormalize

SpecNorm == InitNorm /\ [][NextNorm]_vars

(***************************************************************************)
(* Vocabulary of the properties.                                           *)
(***************************************************************************)
\* the last call was method name and it returned
Returned(name) == status = "ready" /\ call = name /\ error = "none"

\* the triangles of a shape: the indices in the list that generates it
Generators(shape) == {shape[k] : k \in DOMAIN shape}

\* the point indices that are a vertex of a triangle among those of indices S
VerticesOf(S) == UNION {simplices[i] : i \in S}

\* the input point indices 0..N-1
InputPoints == 0..(npoints - 1)

\* the input points that are a vertex of no triangle of the triangulation
IsolatedPoints == {p \in InputPoints : \A i \in 1..len : p \notin simplices[i]}

\* the rank of triangle i: its position in the order of argsort, from 1
Rank(i) == CHOOSE k \in 1..len : argsort[k] = i

\* the triangles that a mask m leaves unflagged
Unflagged(m) == {i \in DOMAIN m : ~m[i]}

\* the triangles of ranks 0..n cover every vertex of the triangulation
PrefixCovers(n) == VerticesOf(1..len) \subseteq VerticesOf({argsort[j] : j \in 1..(n + 1)})

(***************************************************************************)
(* C1.  The index n that the coverage search finds is minimal: the         *)
(* triangles of ranks 0..n touch all vertices and no shorter prefix of     *)
(* the rank order does (a scan started at rank 0 finds the same n).        *)
(***************************************************************************)
C1_IndexIsMinimal ==
    Returned("optimize") =>
        /\ PrefixCovers(result.n_min)
        /\ \A k \in 0..(result.n_min - 1) : ~PrefixCovers(k)

C4_TriangulationVerticesCovered ==
    Returned("optimize") =>
        /\ Generators(result.shape) = {argsort[j] : j \in 1..(result.n_min + 1)}
        /\ (result.steps = 0 => VerticesOf(1..len) \subseteq VerticesOf(Generators(result.shape)))
        /\ (result.steps > 0 => VerticesOf(1..len) \subseteq VerticesOf(Generators(result.shape)))

C4_Witness ==
    /\ Returned("optimize")
    /\ result.steps = 0
    /\ result.n_min = len \div 3
    /\ VerticesOf(1..len) \subseteq VerticesOf(Generators(result.shape))

C6_ShapeIsComplementOfMask ==
    (status = "ready" /\ call = "get_mask") =>
        /\ error = "none"
        /\ Unflagged(result.mask) = Generators(get_shape(alpha))
        /\ (alpha <= 0 => Unflagged(result.mask) = 1..len)

(***************************************************************************)
(* C7.  After optimize() returns, the active mask is get_mask(alpha_opt)   *)
(* and it leaves unmasked every triangle that generated the returned       *)
(* shape, whatever the circumradius of the boundary triangle at rank n;    *)
(* when all triangles are needed for coverage, no triangle is masked.      *)
(***************************************************************************)
C7_MaskKeepsShapeTriangles ==
    Returned("optimize") =>
        /\ mask = get_mask(alpha)
        /\ Generators(result.shape) \subseteq Unflagged(mask)
        /\ (result.n_min = len - 1 => Unflagged(mask) = 1..len)

(***************************************************************************)
(* C8.  A construction from fewer than 3 points fails with NotEnoughPoints *)
(* before any triangulation attempt, with normalize True or False; a       *)
(* failure of the triangulation of 3 or more points is never reported as   *)
(* NotEnoughPoints.                                                        *)
(***************************************************************************)
C8_FewPointsRaiseNotEnoughPoints ==
    status = "failed" =>
        /\ (npoints < 3 => error = "NotEnoughPoints" /\ ~triAttempted)
        /\ (npoints >= 3 => error # "NotEnoughPoints")

(***************************************************************************)
(* C9.  On the unit square with its centre, four triangles of one          *)
(* circumradius, optimize() returns, in every order of the ranking, a      *)
(* shape generated by all 4 triangles, leaves no triangle masked, and its  *)
(* alpha_opt is 1/sqrt of the largest squared circumradius less 1e-10.     *)
(***************************************************************************)
C9_SquareSelectsAllFour ==
    (/\ status = "ready"
     /\ call = "optimize"
     /\ simplices = SquareTriangles
     /\ npoints = 5
     /\ \A i \in 1..4 : circumradii_sq[i] = circumradii_sq[1]) =>
        /\ error = "none"
        /\ Generators(result.shape) = 1..4
        /\ Unflagged(mask) = 1..4
        /\ alpha = RecipSqrt(circumradii_sq[argsort[4]]) - EPS

(***************************************************************************)
(* C10.  A triangle whose squared circumradius is the infinite sentinel is *)
(* ranked after every triangle of finite circumradius, is flagged by       *)
(* get_mask(alpha) and left out by get_shape(alpha) for every finite       *)
(* alpha > 0, and is never among the triangles generating the shape that   *)
(* optimize() returns.                                                     *)
(***************************************************************************)
C10_DegenerateTrianglesExcluded ==
    status = "ready" =>
        \A i \in 1..len : circumradii_sq[i] = Inf =>
            /\ \A j \in 1..len : circumradii_sq[j] # Inf => Rank(j) < Rank(i)
            /\ \A a \in Alphas : a > 0 =>
                   get_mask(a)[i] /\ i \notin Generators(get_shape(a))
            /\ (Returned("optimize") => i \notin Generators(result.shape))

(***************************************************************************)
(* C11.  As claimed: the active mask reflects the most recently selected   *)
(* alpha: it is all False after construction, and after every              *)
(* get_shape(alpha) and every optimize() call mask[i] is True iff triangle *)
(* i is excluded at the alpha of that call (get_shape writes the mask as   *)
(* optimize does).                                                         *)
(***************************************************************************)
C11_MaskFollowsLatestSelection ==
    /\ Returned("__init__") => Unflagged(mask) = 1..len
    /\ (Returned("get_shape") \/ Returned("optimize")) =>
           Unflagged(mask) = Generators(get_shape(alpha))

\* the mask flags exactly the triangles with circumradii_sq > 1 / a**2 (the
\* table holds the reciprocals: 1 / circumradii_sq < a**2)
FlagsAbove(m, a) ==
    /\ DOMAIN m = 1..len
    /\ \A i \in 1..len : m[i] <=> circumradii_sq[i] < a * a

\* a step of get_mask or get_shape, or of a call that raises
ReadOnlyStep == call' \in {"get_mask", "get_shape"} \/ error' # "none"

(***************************************************************************)
(* C11, amended.  The active mask is written by set_mask_at_alpha(alpha)   *)
(* and optimize() only: it is all False after construction, get_shape and  *)
(* get_mask (and a call that raises) leave it as it is, and after a        *)
(* set_mask_at_alpha(alpha) or an optimize() that returns, mask[i] is True *)
(* iff circumradii_sq[i] > 1 / alpha**2 for the alpha of that call         *)
(* (alpha_opt for optimize).                                               *)
(***************************************************************************)
C11_MaskWrittenBySettersOnly ==
    /\ [](Returned("__init__") => Unflagged(mask) = 1..len)
    /\ []((Returned("set_mask_at_alpha") \/ Returned("optimize")) => FlagsAbove(mask, alpha))
    /\ [][(status = "ready" /\ ReadOnlyStep) => mask' = mask]_vars

C11_Witness ==
    /\ Returned("get_shape")
    /\ Unflagged(mask) # 1..len
    /\ Unflagged(mask) # Generators(get_shape(alpha))

(***************************************************************************)
(* C12.  The rank order computed at construction is a permutation of the   *)
(* triangle indices, ascending in squared circumradius, and stable: two    *)
(* triangles of equal squared circumradius are ranked in the order of      *)
(* their index in the triangle list.                                       *)
(***************************************************************************)
C12_RankOrderIsStable ==
    status = "ready" =>
        /\ Len(argsort) = len
        /\ {argsort[k] : k \in 1..len} = 1..len
        /\ \A j, k \in 1..len :
               j < k => circumradii_sq[argsort[j]] >= circumradii_sq[argsort[k]]
        /\ \A j, k \in 1..len :
               (j < k /\ circumradii_sq[argsort[j]] = circumradii_sq[argsort[k]])
                   => argsort[j] < argsort[k]

\* the index that the coverage search computes from the tables alone: n_start
\* if ranks 0..n_start-1 cover, else the first n >= n_start where ranks 0..n do
CoverIndex ==
    LET n0 == len \div 3
    IN  IF PrefixCovers(n0 - 1) THEN n0
        ELSE CHOOSE n \in n0..(len - 1) :
                 PrefixCovers(n) /\ \A k \in n0..(n - 1) : ~PrefixCovers(k)

\* the tables and the triangle list stay as they are in this step
TablesKept ==
    /\ simplices' = simplices
    /\ circumradii_sq' = circumradii_sq
    /\ argsort' = argsort
    /\ npoints' = npoints

(***************************************************************************)
(* C13.  The circumradius table, the rank order and the triangle list are  *)
(* fixed at construction: no call of get_mask, get_shape,                  *)
(* set_mask_at_alpha or optimize changes them.  So after any sequence of   *)
(* calls the selection of get_shape(alpha), the mask of get_mask(alpha)    *)
(* and the result of optimize() are what the tables alone determine, as on *)
(* a fresh instance, whatever the active mask is.                          *)
(***************************************************************************)
C13_TablesFixedAtConstruction ==
    /\ [][status = "ready" => TablesKept]_vars
    /\ [](Returned("get_shape") =>
             Generators(result.shape) =
                 {i \in 1..len : alpha <= 0 \/ circumradii_sq[i] >= alpha * alpha})
    /\ [](Returned("get_mask") => FlagsAbove(result.mask, alpha))
    /\ [](Returned("optimize") =>
             /\ result.n_min = CoverIndex
             /\ result.shape = [k \in 1..(CoverIndex + 1) |-> argsort[k]]
             /\ (alpha + EPS) * (alpha + EPS) = circumradii_sq[argsort[CoverIndex + 1]])

C13_Witness ==
    /\ Returned("get_mask")
    /\ Unflagged(mask) # 1..len
    /\ result.mask # mask
    /\ FlagsAbove(result.mask, alpha)

\* __init__ has returned on the normalize branch
NormalizedReady == coords.stage = "ready" /\ coords.normalize

\* the distance of two coordinates
Dist(a, b) == IF a >= b THEN a - b ELSE b - a

\* the circumradius table holds the value computed on the normalized points
TableFromNormalized ==
    /\ coords.r2[2] # 0
    /\ coords.r2[1] * 4 * Cross(coords.points) * Cross(coords.points) =
           coords.r2[2] * SideSq(coords.points, 1, 2) * SideSq(coords.points, 2, 3)
                        * SideSq(coords.points, 3, 1)

(***************************************************************************)
(* C14.  As claimed: with normalize=True the coordinates stored in the     *)
(* instance after initialization equal the input coordinates, so a shape   *)
(* assembled from a triangle selection is the polygon of the unnormalized  *)
(* points, while the circumradius table keeps the values computed on the   *)
(* normalized coordinates.                                                 *)
(***************************************************************************)
C14_RoundTripIsExact ==
    NormalizedReady =>
        /\ coords.xy = coords.input
        /\ TableFromNormalized

(***************************************************************************)
(* C14, amended.  With normalize=True the coordinates stored in the        *)
(* instance after initialization equal the input coordinates up to the     *)
(* rounding of the division by the scale and of the multiplication back:   *)
(* on each axis they differ by at most half a unit of the last place of    *)
(* the normalized coordinate times the scale, plus half a unit of the      *)
(* last place.  The circumradius table keeps the values computed on the    *)
(* normalized coordinates.                                                 *)
(***************************************************************************)
C14_RoundTripWithinRounding ==
    NormalizedReady =>
        /\ \A i \in 1..3 : \A k \in 1..2 :
               2 * Prec * Dist(coords.xy[i][k], coords.input[i][k]) <= coords.scale[k] + Prec
        /\ TableFromNormalized

C14_Witness ==
    /\ NormalizedReady
    /\ coords.xy # coords.input
    /\ coords.scale[1] # coords.scale[2]
    /\ TableFromNormalized

====
